---- MODULE Spec2Model ----
(***************************************************************************)
(* The launchpad program of src/Launchpad.rs: a ProjectInfo account is     *)
(* created by initialize_project and tokens are bought with                *)
(* purchase_tokens.  Quantities are unsigned counters 0..UMax (u64 in the  *)
(* program), timestamps are 0..MaxTime.  One instruction is one atomic     *)
(* step: the runtime serialises the transactions that write the same       *)
(* account and discards every account change of an instruction that        *)
(* returns an error or panics.                                             *)
(***************************************************************************)
EXTENDS Integers, FiniteSets, Sequences, TLC

\* Largest value of the unsigned counter type (u64::MAX in the program).
UMax == 7
\* Last value of the clock the model looks at.
MaxTime == 4

\* The start and end times an InitializeProject instruction may carry.
Times == {0, 1, 3}

\* System accounts holding lamports.  Any of them may sign a transaction.
Wallets == {"buyer", "vault"}
\* Token accounts of the sale mint, with the wallet that owns each one.
TokenAccounts == {"token_vault", "buyer_tokens"}
TokenOwner == [a \in TokenAccounts |-> IF a = "token_vault" THEN "vault" ELSE "buyer"]
\* The wallets that send PurchaseTokens instructions.
Buyers == {"buyer"}
\* The transactions that may be in flight at the same time.
Slots == {"a", "b"}
\* Addresses at which a ProjectInfo account may be created, and those at which
\* the instructions of a single sale are aimed.
Addresses == {"p1", "p2"}
ProjectIds == {"p1"}

\* Values the instruction arguments are drawn from.
Prices == {0, 3}
Supplies == {3, 6}
Mins == {0, 2}
Maxs == {1, 4}
Amounts == {0, 1, 2, 4}

VARIABLES
    project_info,   \* ProjectInfo account at each address (initialized or not)
    lamports,       \* lamport balance of each wallet
    token_amount,   \* token balance of each token account
    now,            \* Clock::get()?.unix_timestamp
    last,           \* the instruction executed by the latest step, with its result
    inflight,       \* the PurchaseTokens transactions sent and not yet collected
    joint           \* whether the two in flight were each valid and jointly too large

vars == <<project_info, lamports, token_amount, now, last, inflight, joint>>

-----------------------------------------------------------------------------
\* An address at which no ProjectInfo account has been created yet.
NoProject ==
    [initialized |-> FALSE, admin |-> "none", start_time |-> 0, end_time |-> 0,
     token_price |-> 0, total_tokens |-> 0, tokens_sold |-> 0,
     min_purchase |-> 0, max_purchase |-> 0]

\* struct ProjectInfo as initialize_project fills it.
ProjectInfo(admin, start_time, end_time, token_price, total_tokens, min_purchase, max_purchase) ==
    [initialized |-> TRUE, admin |-> admin, start_time |-> start_time,
     end_time |-> end_time, token_price |-> token_price,
     total_tokens |-> total_tokens, tokens_sold |-> 0,
     min_purchase |-> min_purchase, max_purchase |-> max_purchase]

\* Faulty variants of checked_add and checked_mul: the result reduced modulo
\* UMax + 1 (u64::wrapping_add and u64::wrapping_mul).
checked_add_wrapping(a, b) == (a + b) % (UMax + 1)
checked_mul_wrapping(a, b) == (a * b) % (UMax + 1)

\* u64::checked_add and u64::checked_mul: None when the result does not fit.
None == -1
checked_add(a, b) == IF a + b > UMax THEN None ELSE a + b
checked_mul(a, b) == IF a * b > UMax THEN None ELSE a * b

\* Faulty variant of SaleActive: a sale that never closes.
SaleActive_no_end(info, clock) == clock >= info.start_time

\* Faulty variant of SaleActive: the window taken without its two end points.
SaleActive_exclusive(info, clock) ==
    clock > info.start_time /\ clock < info.end_time

\* require!(clock.unix_timestamp >= start_time && clock.unix_timestamp <= end_time)
SaleActive(info, clock) ==
    clock >= info.start_time /\ clock <= info.end_time

\* Faulty variant of MeetsMinimum: the minimum itself is refused.
MeetsMinimum_strict(info, amount) == amount > info.min_purchase

\* require!(amount >= project_info.min_purchase)
MeetsMinimum(info, amount) == amount >= info.min_purchase

\* Faulty variant of WithinMaximum: no maximum at all.
WithinMaximum_unchecked(info, amount) == TRUE

\* Faulty variant of WithinMaximum: the maximum applied to all that was sold.
WithinMaximum_cumulative(info, amount) == info.tokens_sold + amount <= info.max_purchase

\* require!(amount <= project_info.max_purchase)
WithinMaximum(info, amount) == amount <= info.max_purchase

\* Faulty variants of WithinSupply: the cap itself refused; tokens_sold left out.
WithinSupply_strict(info, amount) ==
    checked_add(info.tokens_sold, amount) < info.total_tokens
WithinSupply_amount_only(info, amount) == amount <= info.total_tokens

\* require!(tokens_sold.checked_add(amount).unwrap() <= total_tokens), once the
\* sum is known to fit.
WithinSupply(info, amount) ==
    checked_add(info.tokens_sold, amount) <= info.total_tokens

\* Faulty variant of UpdatedSold: the amount stored instead of added.
UpdatedSold_assigned(info, amount) == amount

\* project_info.tokens_sold = project_info.tokens_sold.checked_add(amount).unwrap()
UpdatedSold(info, amount) == checked_add(info.tokens_sold, amount)

\* system_instruction::transfer invoked by the program: `from` must have signed
\* and hold the amount; the credit must fit.  A transfer to oneself changes nothing.
SystemTransfer(lam, from, to, amount, signers) ==
    IF from \notin signers \/ lam[from] < amount
    THEN [ok |-> FALSE, lamports |-> lam]
    ELSE LET debited == [lam EXCEPT ![from] = @ - amount]
         IN  IF debited[to] + amount > UMax
             THEN [ok |-> FALSE, lamports |-> lam]
             ELSE [ok |-> TRUE, lamports |-> [debited EXCEPT ![to] = @ + amount]]

\* token::transfer: `authority` must own `from` and must have signed, and `from`
\* must hold the amount.  A transfer of an account to itself changes nothing.
TokenTransfer(tok, from, to, authority, amount, signers) ==
    IF authority \notin signers \/ TokenOwner[from] # authority \/ tok[from] < amount
    THEN [ok |-> FALSE, token_amount |-> tok]
    ELSE LET debited == [tok EXCEPT ![from] = @ - amount]
         IN  IF debited[to] + amount > UMax
             THEN [ok |-> FALSE, token_amount |-> tok]
             ELSE [ok |-> TRUE, token_amount |-> [debited EXCEPT ![to] = @ + amount]]

\* The accounts of one PurchaseTokens instruction: every one of them is chosen
\* by the caller; the buyer is a Signer.
PurchaseContexts ==
    { c \in [project : ProjectIds, buyer : Buyers, project_vault : Wallets,
             token_vault : TokenAccounts, buyer_token_account : TokenAccounts,
             signers : SUBSET Wallets] : c.buyer \in c.signers }

\* What purchase_tokens has done when it returns: its result and the accounts
\* as it leaves them (on an error, with the transfers made before the error).
PurchaseOutcome(result, tokens_sold, lam, tok) ==
    [result |-> result, tokens_sold |-> tokens_sold, lamports |-> lam, token_amount |-> tok]

\* Faulty variant of Validate: the supply cap looked at before the maximum.
Validate_cap_first(info, clock, amount) ==
    IF ~SaleActive(info, clock) THEN "SaleInactive"
    ELSE IF ~MeetsMinimum(info, amount) THEN "BelowMinimum"
    ELSE IF checked_add(info.tokens_sold, amount) = None THEN "Panic"
    ELSE IF ~WithinSupply(info, amount) THEN "InsufficientTokens"
    ELSE IF ~WithinMaximum(info, amount) THEN "AboveMaximum"
    ELSE "Ok"

\* The four require! of purchase_tokens, in the order of the code: the error of
\* the first that fails ("Panic" when checked_add(..).unwrap() panics), else "Ok".
Validate(info, clock, amount) ==
    IF ~SaleActive(info, clock) THEN "SaleInactive"
    ELSE IF ~MeetsMinimum(info, amount) THEN "BelowMinimum"
    ELSE IF ~WithinMaximum(info, amount) THEN "AboveMaximum"
    ELSE IF checked_add(info.tokens_sold, amount) = None THEN "Panic"
    ELSE IF ~WithinSupply(info, amount) THEN "InsufficientTokens"
    ELSE "Ok"

purchase_tokens(info, lam, tok, clock, ctx, amount) ==
    IF Validate(info, clock, amount) # "Ok"
    THEN PurchaseOutcome(Validate(info, clock, amount), info.tokens_sold, lam, tok)
    ELSE IF checked_mul(amount, info.token_price) = None
    THEN PurchaseOutcome("Panic", info.tokens_sold, lam, tok)
    ELSE LET price == checked_mul(amount, info.token_price)
             paid == SystemTransfer(lam, ctx.buyer, ctx.project_vault, price, ctx.signers)
         IN  IF ~paid.ok
             THEN PurchaseOutcome("TransferFailed", info.tokens_sold, lam, tok)
             ELSE LET sent == TokenTransfer(tok, ctx.token_vault, ctx.buyer_token_account,
                                            ctx.project_vault, amount, ctx.signers)
                  IN  IF ~sent.ok
                      THEN PurchaseOutcome("TokenTransferFailed", info.tokens_sold,
                                           paid.lamports, tok)
                      ELSE PurchaseOutcome("Ok", UpdatedSold(info, amount),
                                           paid.lamports, sent.token_amount)

\* Faulty variant of Committed: the changes made before an error are kept.
Committed_partial(outcome, tokens_sold, lam, tok) == outcome

\* The account changes of an instruction are kept only when it returns Ok(()):
\* an Err or a panic aborts the transaction and the accounts stay as they were.
Committed(outcome, tokens_sold, lam, tok) ==
    IF outcome.result = "Ok"
    THEN outcome
    ELSE PurchaseOutcome(outcome.result, tokens_sold, lam, tok)

\* Faulty variant of initialize_project: the start time looked at first.
initialize_project_start_first(clock, start_time, end_time) ==
    IF ~(start_time > clock) THEN "InvalidStartTime"
    ELSE IF ~(end_time > start_time) THEN "InvalidTimeRange"
    ELSE "Ok"

\* The two require! of initialize_project, in the order of the code.
initialize_project(clock, start_time, end_time) ==
    IF ~(end_time > start_time) THEN "InvalidTimeRange"
    ELSE IF ~(start_time > clock) THEN "InvalidStartTime"
    ELSE "Ok"

\* Faulty variant of InitResult: an existing account is set up again.
InitResult_reinit(existing, clock, start_time, end_time) ==
    initialize_project(clock, start_time, end_time)

\* #[account(init, ...)] project_info: the account is created before the handler
\* runs, which fails when an account already exists at the address.
InitResult(existing, clock, start_time, end_time) ==
    IF existing.initialized THEN "AccountAlreadyInUse"
    ELSE initialize_project(clock, start_time, end_time)

-----------------------------------------------------------------------------
\* The instruction of the latest step: what the caller sent and what came back.
Call(op, result, project, amount) ==
    [op |-> op, result |-> result, project |-> project, amount |-> amount]

\* A slot with no transaction in it; a transaction waiting to be executed.
NoContext ==
    [project |-> "none", buyer |-> "none", project_vault |-> "none",
     token_vault |-> "none", buyer_token_account |-> "none", signers |-> {}]
NoRequest == [status |-> "none", ctx |-> NoContext, amount |-> 0]
Pending(ctx, amount) == [status |-> "pending", ctx |-> ctx, amount |-> amount]

\* The accounts a client of the sale sends: the sale's vault and token vault and
\* the buyer's token account, signed by the buyer alone or with the vault.
SaleContexts ==
    { c \in PurchaseContexts :
        /\ c.project_vault = "vault" /\ c.token_vault = "token_vault"
        /\ c.buyer_token_account = "buyer_tokens" }

Init ==
    /\ project_info = [p \in Addresses |-> NoProject]
    /\ lamports = [w \in Wallets |-> IF w = "buyer" THEN 6 ELSE 0]
    /\ token_amount = [a \in TokenAccounts |-> IF a = "token_vault" THEN 5 ELSE 1]
    /\ now = 0
    /\ last = Call("none", "Ok", "none", 0)
    /\ inflight = [s \in Slots |-> NoRequest]
    /\ joint = FALSE

\* Faulty variant of StoredProject: the two purchase bounds exchanged.
StoredProject_swapped(admin, start_time, end_time, token_price, total_tokens, min_purchase, max_purchase) ==
    ProjectInfo(admin, start_time, end_time, token_price, total_tokens,
                max_purchase, min_purchase)

\* The assignments of initialize_project (lines 50-58), admin being the signer.
StoredProject(admin, start_time, end_time, token_price, total_tokens, min_purchase, max_purchase) ==
    ProjectInfo(admin, start_time, end_time, token_price, total_tokens,
                min_purchase, max_purchase)

\* The instruction InitializeProject with all its arguments, signed by admin,
\* for the address p.
InitializeProjectWith(p, admin, start_time, end_time, token_price, total_tokens, min_purchase, max_purchase) ==
    LET result == InitResult(project_info[p], now, start_time, end_time)
    IN  /\ project_info' =
              IF result = "Ok"
              THEN [project_info EXCEPT ![p] =
                       StoredProject(admin, start_time, end_time, token_price,
                                     total_tokens, min_purchase, max_purchase)]
              ELSE project_info
        /\ last' = Call("initialize", result, p, 0)
        /\ UNCHANGED <<lamports, token_amount, now, inflight, joint>>

\* The arguments that the two require! do not read: all of them matter when the
\* instruction succeeds, and none when it fails.
StoredArguments == Prices \X Supplies \X Mins \X Maxs
ArgumentsRead(result) ==
    IF result = "Ok" THEN StoredArguments ELSE {CHOOSE a \in StoredArguments : TRUE}

\* The instruction InitializeProject, signed by admin, for the address p, with
\* any values of the arguments that are only stored.
InitializeProject(p, admin, start_time, end_time) ==
    \E a \in ArgumentsRead(InitResult(project_info[p], now, start_time, end_time)) :
        InitializeProjectWith(p, admin, start_time, end_time, a[1], a[2], a[3], a[4])

\* Faulty variant of ExecutePurchase: one counter shared by all the projects.
ExecutePurchase_shared_counter(ctx, amount) ==
    LET info == project_info[ctx.project]
        outcome ==
            IF ~info.initialized
            THEN PurchaseOutcome("AccountNotInitialized", info.tokens_sold,
                                 lamports, token_amount)
            ELSE Committed(purchase_tokens(info, lamports, token_amount, now, ctx, amount),
                           info.tokens_sold, lamports, token_amount)
    IN  /\ project_info' =
              [p \in Addresses |-> [project_info[p] EXCEPT !.tokens_sold = outcome.tokens_sold]]
        /\ lamports' = outcome.lamports
        /\ token_amount' = outcome.token_amount
        /\ last' = Call("purchase", outcome.result, ctx.project, amount)
        /\ UNCHANGED now

\* The execution of one PurchaseTokens instruction with the accounts ctx.
\* Account<ProjectInfo> is checked before the handler runs.
ExecutePurchase(ctx, amount) ==
    LET info == project_info[ctx.project]
        outcome ==
            IF ~info.initialized
            THEN PurchaseOutcome("AccountNotInitialized", info.tokens_sold,
                                 lamports, token_amount)
            ELSE Committed(purchase_tokens(info, lamports, token_amount, now, ctx, amount),
                           info.tokens_sold, lamports, token_amount)
    IN  /\ project_info' =
              [project_info EXCEPT ![ctx.project].tokens_sold = outcome.tokens_sold]
        /\ lamports' = outcome.lamports
        /\ token_amount' = outcome.token_amount
        /\ last' = Call("purchase", outcome.result, ctx.project, amount)
        /\ UNCHANGED now

\* A PurchaseTokens transaction sent and executed with nothing else in flight.
PurchaseTokens(ctx, amount) ==
    /\ ExecutePurchase(ctx, amount)
    /\ UNCHANGED <<inflight, joint>>

\* The clock advances between instructions.
Tick ==
    /\ now < MaxTime
    /\ now' = now + 1
    /\ last' = Call("tick", "Ok", "none", 0)
    /\ UNCHANGED <<project_info, lamports, token_amount, inflight, joint>>

\* Two requests that each pass every require! of purchase_tokens against the
\* current tokens_sold, and whose amounts together exceed what is left.
JointlyExceeding(r1, r2) ==
    /\ r1.ctx.project = r2.ctx.project
    /\ LET info == project_info[r1.ctx.project]
       IN  /\ info.initialized
           /\ Validate(info, now, r1.amount) = "Ok"
           /\ Validate(info, now, r2.amount) = "Ok"
           /\ r1.amount + r2.amount > info.total_tokens - info.tokens_sold

\* A client sends a PurchaseTokens transaction; it is not executed yet.
Submit(slot, ctx, amount) ==
    /\ inflight[slot].status = "none"
    /\ inflight' = [inflight EXCEPT ![slot] = Pending(ctx, amount)]
    /\ joint' = \E other \in Slots \ {slot} :
                    /\ inflight[other].status = "pending"
                    /\ JointlyExceeding(inflight[other], Pending(ctx, amount))
    /\ last' = Call("none", "Ok", "none", 0)
    /\ UNCHANGED <<project_info, lamports, token_amount, now>>

\* The runtime executes one of the transactions in flight.  Both write the
\* account project_info, so they are executed one after the other, in any order.
Process(slot) ==
    /\ inflight[slot].status = "pending"
    /\ ExecutePurchase(inflight[slot].ctx, inflight[slot].amount)
    /\ inflight' = [inflight EXCEPT ![slot] =
                       [status |-> last'.result, ctx |-> NoContext, amount |-> @.amount]]
    /\ UNCHANGED joint

\* The clients read the results of the transactions sent, all of them executed.
Collect ==
    /\ \A s \in Slots : inflight[s].status # "pending"
    /\ \E s \in Slots : inflight[s].status # "none"
    /\ inflight' = [s \in Slots |-> NoRequest]
    /\ joint' = FALSE
    /\ last' = Call("none", "Ok", "none", 0)
    /\ UNCHANGED <<project_info, lamports, token_amount, now>>

Next ==
    \/ \E p \in ProjectIds, admin \in Wallets, start_time \in Times, end_time \in Times :
            InitializeProject(p, admin, start_time, end_time)
    \/ \E ctx \in PurchaseContexts, amount \in Amounts : PurchaseTokens(ctx, amount)
    \/ Tick

Spec == Init /\ [][Next]_vars

\* The program with its PurchaseTokens transactions sent first and executed later.
NextConcurrent ==
    \/ \E p \in ProjectIds, admin \in Wallets, start_time \in Times, end_time \in Times :
            InitializeProject(p, admin, start_time, end_time)
    \/ \E slot \in Slots, ctx \in SaleContexts, amount \in Amounts :
            Submit(slot, ctx, amount)
    \/ \E slot \in Slots : Process(slot)
    \/ Collect
    \/ Tick

SpecConcurrent == Init /\ [][NextConcurrent]_vars

\* The program with two sales: instructions aimed at either address, the
\* purchases with the accounts of SaleContexts and the project of the caller's
\* choice.  The sales are created by the vault with one of two configurations
\* and one of two windows.
TwoProjectContexts == { [c EXCEPT !.project = p] : c \in SaleContexts, p \in Addresses }
TwoProjectArguments == {<<0, 3, 0, 1>>, <<3, 6, 2, 4>>}
TwoProjectStarts == {1, 2}
TwoProjectEnds == {2, 3}

NextTwoProjects ==
    \/ \E p \in Addresses, start_time \in TwoProjectStarts, end_time \in TwoProjectEnds, a \in TwoProjectArguments :
            InitializeProjectWith(p, "vault", start_time, end_time, a[1], a[2], a[3], a[4])
    \/ \E ctx \in TwoProjectContexts, amount \in Amounts : PurchaseTokens(ctx, amount)
    \/ Tick

SpecTwoProjects == Init /\ [][NextTwoProjects]_vars

-----------------------------------------------------------------------------
\* Shorthands of the properties below.
PurchaseStep == last'.op = "purchase" /\ project_info[last'.project].initialized
TargetInfo == project_info[last'.project]
InWindow(info) == ~(now < info.start_time \/ now > info.end_time)

\* C1: in every reachable state the sold counter of every project satisfies
\* 0 <= tokens_sold <= total_tokens.
C1_SoldWithinSupply ==
    \A p \in ProjectIds :
        /\ 0 <= project_info[p].tokens_sold
        /\ project_info[p].tokens_sold <= project_info[p].total_tokens

\* A purchase has just been refused by the cap on a sale that is sold out.
C1_Witness ==
    /\ last.op = "purchase" /\ last.result = "InsufficientTokens"
    /\ project_info["p1"].tokens_sold = project_info["p1"].total_tokens
    /\ last.amount > 0

C3_SuccessfulPurchaseMovesAll ==
    [][last'.op = "purchase" => \A ctx \in PurchaseContexts, amount \in Amounts :
          (PurchaseTokens(ctx, amount) /\ last'.result = "Ok") =>
              LET price == amount * project_info[ctx.project].token_price
              IN  /\ lamports'[ctx.buyer] = lamports[ctx.buyer] - price
                  /\ lamports'[ctx.project_vault] = lamports[ctx.project_vault] + price
                  /\ token_amount'[ctx.buyer_token_account] =
                         token_amount[ctx.buyer_token_account] + amount
                  /\ token_amount'[ctx.token_vault] = token_amount[ctx.token_vault] - amount
                  /\ project_info'[ctx.project].tokens_sold =
                         project_info[ctx.project].tokens_sold + amount]_vars

\* C5: tokens_sold never decreases, and every change of it is the amount of a
\* successful PurchaseTokens on that project.
C5_SoldGrowsByPurchasesOnly ==
    [][\A p \in ProjectIds :
          LET grown == project_info'[p].tokens_sold - project_info[p].tokens_sold
          IN  /\ grown >= 0
              /\ grown # 0 => /\ last'.op = "purchase" /\ last'.result = "Ok"
                              /\ last'.project = p /\ last'.amount = grown
              /\ (last'.op = "purchase" /\ last'.result = "Ok" /\ last'.project = p)
                     => grown = last'.amount]_vars

\* A second successful purchase has raised a counter that was not zero.
C5_Witness ==
    /\ last.op = "purchase" /\ last.result = "Ok" /\ last.amount > 0
    /\ project_info["p1"].tokens_sold > last.amount

\* C6: PurchaseTokens fails with SaleInactive exactly when now < start_time or
\* now > end_time, whatever the amount and the other fields.
C6_SaleInactiveIffOutsideWindow ==
    [][PurchaseStep =>
          (last'.result = "SaleInactive"
              <=> (now < TargetInfo.start_time \/ now > TargetInfo.end_time))]_vars

\* A purchase made at now = end_time has succeeded.
C6_Witness ==
    /\ last.op = "purchase" /\ last.result = "Ok"
    /\ now = project_info["p1"].end_time

\* C7: the error of a PurchaseTokens that violates several preconditions is that
\* of the first failing check in the order window, minimum, maximum, overflow
\* of tokens_sold + amount, supply cap.
C7_FirstFailingCheckWins ==
    [][PurchaseStep =>
          LET info == TargetInfo
              amount == last'.amount
              sum == info.tokens_sold + amount
          IN  /\ ~InWindow(info) => last'.result = "SaleInactive"
              /\ (InWindow(info) /\ amount < info.min_purchase)
                     => last'.result = "BelowMinimum"
              /\ (InWindow(info) /\ amount >= info.min_purchase
                     /\ amount > info.max_purchase)
                     => last'.result = "AboveMaximum"
              /\ (InWindow(info) /\ amount >= info.min_purchase
                     /\ amount <= info.max_purchase /\ sum > UMax)
                     => last'.result = "Panic"
              /\ (InWindow(info) /\ amount >= info.min_purchase
                     /\ amount <= info.max_purchase /\ sum <= UMax
                     /\ sum > info.total_tokens)
                     => last'.result = "InsufficientTokens"]_vars

\* A purchase above the maximum that also exceeds the supply was refused with
\* AboveMaximum.
C7_Witness ==
    /\ last.op = "purchase" /\ last.result = "AboveMaximum"
    /\ project_info["p1"].tokens_sold + last.amount > project_info["p1"].total_tokens

\* C8: inside the window PurchaseTokens fails with BelowMinimum exactly when
\* amount < min_purchase, and with AboveMaximum exactly when amount >=
\* min_purchase and amount > max_purchase; a successful purchase has
\* min_purchase <= amount <= max_purchase.
C8_BoundsEnforced ==
    [][(PurchaseStep /\ InWindow(TargetInfo)) =>
          /\ last'.result = "BelowMinimum" <=> last'.amount < TargetInfo.min_purchase
          /\ last'.result = "AboveMaximum"
                 <=> (last'.amount >= TargetInfo.min_purchase
                        /\ last'.amount > TargetInfo.max_purchase)
          /\ last'.result = "Ok"
                 => (TargetInfo.min_purchase <= last'.amount
                        /\ last'.amount <= TargetInfo.max_purchase)]_vars

\* A purchase of exactly min_purchase > 0 has succeeded.
C8_Witness ==
    /\ last.op = "purchase" /\ last.result = "Ok"
    /\ project_info["p1"].min_purchase > 0
    /\ last.amount = project_info["p1"].min_purchase

\* C9: inside the window, with min_purchase <= amount <= max_purchase and
\* tokens_sold + amount representable, PurchaseTokens fails with
\* InsufficientTokens exactly when tokens_sold + amount > total_tokens.
C9_SupplyCapExact ==
    [][(PurchaseStep /\ InWindow(TargetInfo)
          /\ last'.amount >= TargetInfo.min_purchase
          /\ last'.amount <= TargetInfo.max_purchase
          /\ TargetInfo.tokens_sold + last'.amount <= UMax) =>
          (last'.result = "InsufficientTokens"
              <=> TargetInfo.tokens_sold + last'.amount > TargetInfo.total_tokens)]_vars

\* A successful purchase has sold the sale out exactly.
C9_Witness ==
    /\ last.op = "purchase" /\ last.result = "Ok" /\ last.amount > 0
    /\ project_info["p1"].tokens_sold = project_info["p1"].total_tokens

\* C10 as stated: every InitializeProject with end_time <= start_time fails with
\* InvalidTimeRange, every one with end_time > start_time and start_time <= now
\* fails with InvalidStartTime, and no ProjectInfo exists at the address after it.
C10_BadTimesRejected_AnyAddress ==
    [][last'.op = "initialize" => \A p \in ProjectIds, admin \in Wallets, start_time \in Times, end_time \in Times :
          InitializeProject(p, admin, start_time, end_time) =>
              /\ end_time <= start_time
                    => (last'.result = "InvalidTimeRange" /\ ~project_info'[p].initialized)
              /\ (end_time > start_time /\ start_time <= now)
                    => (last'.result = "InvalidStartTime" /\ ~project_info'[p].initialized)]_vars

\* C10, amended: the same for an InitializeProject aimed at an address that holds
\* no ProjectInfo yet; and an InitializeProject that fails changes no account.
C10_BadTimesRejected ==
    [][last'.op = "initialize" => \A p \in ProjectIds, admin \in Wallets, start_time \in Times, end_time \in Times :
          InitializeProject(p, admin, start_time, end_time) =>
              /\ (~project_info[p].initialized /\ end_time <= start_time)
                    => (last'.result = "InvalidTimeRange" /\ ~project_info'[p].initialized)
              /\ (~project_info[p].initialized /\ end_time > start_time
                     /\ start_time <= now)
                    => (last'.result = "InvalidStartTime" /\ ~project_info'[p].initialized)
              /\ last'.result # "Ok"
                    => UNCHANGED <<project_info, lamports, token_amount>>]_vars

\* An InitializeProject has failed with InvalidStartTime and left no project.
C10_Witness ==
    /\ last.op = "initialize" /\ last.result = "InvalidStartTime"
    /\ ~project_info["p1"].initialized
    /\ now > 0

\* Both transactions in flight have been executed, and they were each valid and
\* jointly too large when the second of them was sent.
BothExecuted ==
    /\ joint
    /\ \A s \in Slots : inflight[s].status \notin {"none", "pending"}
Succeeded == { s \in Slots : inflight[s].status = "Ok" }

\* C4 as stated: of two concurrent purchases that each pass validation and
\* jointly exceed the supply left, exactly one succeeds and the other fails.
C4_ExactlyOneSucceeds ==
    BothExecuted => Cardinality(Succeeded) = 1

\* C4, amended: the two never both succeed; and one of them succeeds unless one
\* has failed for another reason than the cap (the sale closed meanwhile, an
\* overflow, a failed payment or token transfer).
C4_NeverBothSucceed ==
    BothExecuted =>
        /\ Cardinality(Succeeded) <= 1
        /\ Cardinality(Succeeded) = 0 =>
               \E s \in Slots : inflight[s].status \in
                   {"SaleInactive", "Panic", "TransferFailed", "TokenTransferFailed"}

\* One of the two has succeeded and the other was refused by the cap.
C4_Witness ==
    /\ BothExecuted
    /\ \E s \in Slots : inflight[s].status = "Ok" /\ inflight[s].amount > 0
    /\ \E s \in Slots : inflight[s].status = "InsufficientTokens"

\* The record a valid InitializeProject is said to produce from its arguments.
Produced(admin, start_time, end_time, a) ==
    [initialized |-> TRUE, admin |-> admin, start_time |-> start_time,
     end_time |-> end_time, token_price |-> a[1], total_tokens |-> a[2],
     tokens_sold |-> 0, min_purchase |-> a[3], max_purchase |-> a[4]]

Configuration(info) ==
    <<info.initialized, info.admin, info.start_time, info.end_time,
      info.token_price, info.total_tokens, info.min_purchase, info.max_purchase>>

C13_SoldOverflowPanics ==
    [][(PurchaseStep /\ InWindow(TargetInfo)
          /\ last'.amount >= TargetInfo.min_purchase
          /\ last'.amount <= TargetInfo.max_purchase
          /\ TargetInfo.tokens_sold + last'.amount > UMax) =>
          /\ last'.result = "Panic"
          /\ last'.result \notin {"InsufficientTokens", "Ok"}
          /\ UNCHANGED <<project_info, lamports, token_amount>>]_vars

\* A purchase has panicked on a sum that does not fit the counter.
C13_Witness ==
    /\ last.op = "purchase" /\ last.result = "Panic"
    /\ project_info["p1"].tokens_sold + last.amount > UMax

\* C14: a PurchaseTokens that passes the four require! and whose amount *
\* token_price does not fit panics before the transfers: no lamports are paid
\* (not the product modulo UMax + 1 either), no tokens move and tokens_sold stays.
C14_PriceOverflowPanics ==
    [][(PurchaseStep /\ InWindow(TargetInfo)
          /\ last'.amount >= TargetInfo.min_purchase
          /\ last'.amount <= TargetInfo.max_purchase
          /\ TargetInfo.tokens_sold + last'.amount <= TargetInfo.total_tokens
          /\ last'.amount * TargetInfo.token_price > UMax) =>
          /\ last'.result = "Panic"
          /\ UNCHANGED <<project_info, lamports, token_amount>>]_vars

\* A purchase within the supply has panicked on a price that does not fit.
C14_Witness ==
    /\ last.op = "purchase" /\ last.result = "Panic"
    /\ project_info["p1"].tokens_sold + last.amount <= project_info["p1"].total_tokens
    /\ last.amount * project_info["p1"].token_price > UMax

\* C15: every successful PurchaseTokens credits the payment to the sale's vault
\* and takes the tokens from the sale's token vault, whatever accounts the
\* caller has passed.
C15_PurchaseUsesSaleAccounts ==
    [][(PurchaseStep /\ last'.result = "Ok") =>
          /\ lamports'["vault"] =
                 lamports["vault"] + last'.amount * TargetInfo.token_price
          /\ token_amount'["token_vault"] = token_amount["token_vault"] - last'.amount]_vars

OtherProjects(p) == Addresses \ {p}

\* C17: an InitializeProject or a PurchaseTokens aimed at one project, whether it
\* succeeds or fails, leaves every field of every other project as it was; and
\* the result of a PurchaseTokens is the one that the record of its own project,
\* the balances and the clock give, whatever the other project holds.
C17_ProjectsIndependent ==
    [][last'.op \in {"initialize", "purchase"} =>
          /\ \A q \in OtherProjects(last'.project) : project_info'[q] = project_info[q]
          /\ last'.op = "purchase" =>
                 \A ctx \in TwoProjectContexts :
                     PurchaseTokens(ctx, last'.amount) =>
                         LET info == project_info[ctx.project]
                         IN  /\ last'.result = "AccountNotInitialized" <=> ~info.initialized
                             /\ info.initialized =>
                                    last'.result =
                                        purchase_tokens(info, lamports, token_amount, now,
                                                        ctx, last'.amount).result]_vars

\* A purchase on p2 has succeeded while p1 is sold out, and p1 is as it was.
C17_Witness ==
    /\ last.op = "purchase" /\ last.result = "Ok" /\ last.project = "p2"
    /\ last.amount > 0
    /\ project_info["p1"].initialized
    /\ project_info["p1"].tokens_sold = project_info["p1"].total_tokens
    /\ project_info["p2"].tokens_sold = last.amount

\* C18: in every reachable state the tokens that have left the sale's token
\* vault, the tokens the buyer has received and the lamports the sale's vault
\* has received are tokens_sold, tokens_sold and tokens_sold * token_price.
C18_Conservation ==
    \A p \in ProjectIds :
        /\ 5 - token_amount["token_vault"] = project_info[p].tokens_sold
        /\ token_amount["buyer_tokens"] - 1 = project_info[p].tokens_sold
        /\ lamports["vault"] = project_info[p].tokens_sold * project_info[p].token_price

\* C19: the clock never goes back, so a sale that has started stays started and
\* a sale that has ended stays ended; tokens_sold is 0 as long as now <
\* start_time; and from a state with now > end_time no PurchaseTokens succeeds,
\* and tokens_sold and all the balances stay as they are.
C19_WindowPhasesInOrder ==
    [][/\ now' >= now
       /\ \A p \in ProjectIds :
             project_info[p].initialized =>
                 /\ now < project_info[p].start_time => project_info[p].tokens_sold = 0
                 /\ now >= project_info[p].start_time => now' >= project_info'[p].start_time
                 /\ now > project_info[p].end_time =>
                        /\ now' > project_info'[p].end_time
                        /\ ~(last'.op = "purchase" /\ last'.result = "Ok")
                        /\ UNCHANGED <<project_info, lamports, token_amount>>]_vars

\* After the end of a sale that has sold tokens, a purchase has been refused
\* with SaleInactive.
C19_Witness ==
    /\ last.op = "purchase" /\ last.result = "SaleInactive"
    /\ project_info["p1"].initialized /\ now > project_info["p1"].end_time
    /\ project_info["p1"].tokens_sold > 0

\* C20: an InitializeProject with valid times for a free address succeeds and
\* stores its arguments also when min_purchase > max_purchase or token_price = 0.
\* Every PurchaseTokens on a project with min_purchase > max_purchase fails and
\* its tokens_sold is 0.  On a project with token_price = 0, a PurchaseTokens
\* that passes the four require!, sent with the sale's accounts and signed by
\* the vault, whose token vault holds the amount, succeeds: no lamports move,
\* amount tokens go from the token vault to the buyer and tokens_sold grows by
\* amount.
C20_DegenerateConfigurations ==
    [][/\ last'.op = "initialize" =>
             \A p \in ProjectIds, admin \in Wallets, start_time \in Times,
                end_time \in Times, a \in StoredArguments :
                 (~project_info[p].initialized
                    /\ end_time > start_time /\ start_time > now
                    /\ (a[3] > a[4] \/ a[1] = 0)
                    /\ InitializeProjectWith(p, admin, start_time, end_time,
                                             a[1], a[2], a[3], a[4])) =>
                     /\ last'.result = "Ok"
                     /\ project_info'[p].token_price = a[1]
                     /\ project_info'[p].min_purchase = a[3]
                     /\ project_info'[p].max_purchase = a[4]
       /\ \A p \in ProjectIds :
             (project_info[p].initialized
                /\ project_info[p].min_purchase > project_info[p].max_purchase) =>
                 /\ project_info[p].tokens_sold = 0
                 /\ (last'.op = "purchase" /\ last'.project = p) => last'.result # "Ok"
       /\ (PurchaseStep /\ TargetInfo.token_price = 0) =>
             \A ctx \in SaleContexts :
                 (/\ PurchaseTokens(ctx, last'.amount)
                  /\ InWindow(TargetInfo)
                  /\ last'.amount >= TargetInfo.min_purchase
                  /\ last'.amount <= TargetInfo.max_purchase
                  /\ TargetInfo.tokens_sold + last'.amount <= TargetInfo.total_tokens
                  /\ "vault" \in ctx.signers
                  /\ token_amount["token_vault"] >= last'.amount
                  /\ token_amount["buyer_tokens"] + last'.amount <= UMax) =>
                     /\ last'.result = "Ok"
                     /\ lamports' = lamports
                     /\ token_amount'["buyer_tokens"] =
                            token_amount["buyer_tokens"] + last'.amount
                     /\ token_amount'["token_vault"] =
                            token_amount["token_vault"] - last'.amount
                     /\ project_info'[ctx.project].tokens_sold =
                            TargetInfo.tokens_sold + last'.amount]_vars

\* On a project with token_price = 0 a purchase has succeeded: the buyer has
\* paid nothing and holds the tokens sold.
C20_Witness ==
    /\ last.op = "purchase" /\ last.result = "Ok" /\ last.amount > 0
    /\ project_info["p1"].token_price = 0
    /\ project_info["p1"].tokens_sold = last.amount
    /\ lamports["buyer"] = 6 /\ lamports["vault"] = 0
    /\ token_amount["buyer_tokens"] = 1 + last.amount

====
